---- MODULE Spec2Model ----
(***************************************************************************)
(* Meteor dodge (src/src/lib.rs): the simulation step Game::update, the    *)
(* frame driver GameCell::tick, the key handlers of add_key_listeners and  *)
(* the xorshift generator rand_f64.                                        *)
(*                                                                         *)
(* The program computes in f64.  The model computes in fixed point, every  *)
(* quantity an integer count of a unit chosen so that the arithmetic of    *)
(* update is exact on a clock of whole milliseconds:                       *)
(*   dt, last_t                     1/MS s   (milliseconds)                *)
(*   spawn_timer                    1/TU s                                 *)
(*   score                          1/SU point                             *)
(*   speed, vy                      1/VU px/s                              *)
(*   Rect.x, Rect.w, width          1/XU px                                *)
(*   Rect.y, Rect.h, height         1/YU px, YU = VU * MS                  *)
(* The quotient of rand_f64 is kept to RandBits bits.                      *)
(***************************************************************************)
EXTENDS Integers, Sequences, FiniteSets, TLC

VARIABLES width, height, player, meteors, spawn_timer, score, speed,
          input, over, last_t, SEED, panicked

game == <<player, meteors, spawn_timer, score, speed, over>>
vars == <<width, height, player, meteors, spawn_timer, score, speed,
          input, over, last_t, SEED, panicked>>

----------------------------------------------------------------------------
(* Units of the fixed-point representation *)
MS == 1000
TU == 10000
SU == 10
VU == 100
XU == 100
YU == VU * MS

(* Bounds of the model *)
MaxT == 700
MaxTLong == 11500
MaxScoreSteps == 300

Max(a, b) == IF a >= b THEN a ELSE b
Min(a, b) == IF a <= b THEN a ELSE b

----------------------------------------------------------------------------
(* Rect::intersects *)
intersectsLopsided(a, o) ==
    /\ a.x <= o.x + o.w
    /\ a.x + a.w > o.x
    /\ a.y < o.y + o.h
    /\ a.y + a.h > o.y
intersectsClosed(a, o) ==
    /\ a.x <= o.x + o.w
    /\ a.x + a.w >= o.x
    /\ a.y <= o.y + o.h
    /\ a.y + a.h >= o.y
intersects(a, o) ==
    /\ a.x < o.x + o.w
    /\ a.x + a.w > o.x
    /\ a.y < o.y + o.h
    /\ a.y + a.h > o.y

----------------------------------------------------------------------------
(* The generator: SEED is a 64-bit word, bit 0 the least significant *)
SeedBits == 64
RandBits == 12

RECURSIVE Pow2(_)
Pow2(n) == IF n = 0 THEN 1 ELSE 2 * Pow2(n - 1)

SeedHex == <<1, 2, 3, 4, 5, 6, 7, 8, 9, 0, 10, 11, 12, 13, 14, 15>>
SeedInit == [i \in 0..(SeedBits - 1) |->
               (SeedHex[16 - (i \div 4)] \div Pow2(i % 4)) % 2]

Shl(s, k) == [i \in 0..(SeedBits - 1) |-> IF i >= k THEN s[i - k] ELSE 0]
Shr(s, k) == [i \in 0..(SeedBits - 1) |-> IF i + k < SeedBits THEN s[i + k] ELSE 0]
Xor(a, b) == [i \in 0..(SeedBits - 1) |-> (a[i] + b[i]) % 2]

(* SEED ^= SEED << 7; SEED ^= SEED >> 9; SEED ^= SEED << 8 *)
xorshift(s) ==
    LET s1 == Xor(s, Shl(s, 7))
        s2 == Xor(s1, Shr(s1, 9))
    IN  Xor(s2, Shl(s2, 8))

(* xorshift is linear over the SEED's bits: a linear map is held as the images
   of the 64 one-bit words, and Jump applies the n-th power of L to v by
   repeated squaring *)
Unit(j) == [i \in 0..(SeedBits - 1) |-> IF i = j THEN 1 ELSE 0]
Apply(L, v) ==
    [i \in 0..(SeedBits - 1) |->
        Cardinality({j \in 0..(SeedBits - 1) : v[j] = 1 /\ L[j][i] = 1}) % 2]
Compose(A, B) == [j \in 0..(SeedBits - 1) |-> Apply(A, B[j])]
Draw1 == [j \in 0..(SeedBits - 1) |-> xorshift(Unit(j))]
(* the three calls of one spawn: x, size, vy *)
Draw3 == Compose(Draw1, Compose(Draw1, Draw1))
RECURSIVE Jump(_, _, _)
Jump(L, n, v) ==
    IF n = 0 THEN v
    ELSE LET sq == Compose(L, L)
             w == IF n % 2 = 1 THEN Apply(L, v) ELSE v
         IN  IF sq = sq /\ w = w THEN Jump(sq, n \div 2, w) ELSE v

RECURSIVE BitsValue(_, _, _)
BitsValue(s, lo, n) == IF n = 0 THEN 0 ELSE s[lo] + 2 * BitsValue(s, lo + 1, n - 1)

(* (SEED & 0xFFFF_FFFF) / u32::MAX, on the RandBits leading bits of the low word:
   the numerator of a fraction over RandMax *)
RandMax == Pow2(RandBits) - 1
RandNum(s) == BitsValue(s, 32 - RandBits, RandBits)

(* SEED & 0xFFFF_FFFF and u32::MAX in full, as <<high half, low half>> of 16
   bits each; the quotient is below 1 exactly when the numerator is below
   the denominator *)
RandLow(s) == <<BitsValue(s, 16, 16), BitsValue(s, 0, 16)>>
U32Max == <<Pow2(16) - 1, Pow2(16) - 1>>
BelowOne(n, d) == n[1] < d[1] \/ (n[1] = d[1] /\ n[2] < d[2])

(* a + (b - a) * rand_f64(), for the generator state s already advanced *)
rand_between(a, b, s) == a + ((b - a) * RandNum(s)) \div RandMax

----------------------------------------------------------------------------
(* Game::new *)
PlayerW == 30
PlayerH == 20
NewPlayer(w, h) ==
    [x |-> w \div 2 - 15 * XU, y |-> h - 40 * YU, w |-> PlayerW * XU, h |-> PlayerH * YU]

New(fields) ==
    /\ \E f \in fields :
         /\ width = f[1] * XU
         /\ height = f[2] * YU
         /\ player = NewPlayer(f[1] * XU, f[2] * YU)
    /\ meteors = <<>>
    /\ spawn_timer = 0
    /\ score = 0
    /\ speed = 120 * VU
    /\ input = [left |-> FALSE, right |-> FALSE]
    /\ over = FALSE
    /\ last_t = 0
    /\ SEED = SeedInit
    /\ panicked = FALSE

----------------------------------------------------------------------------
(* Game::update *)
move_speed == 220

(* f64::clamp panics when min > max *)
ClampPanics(lo, hi) == lo > hi
Clamp(v, lo, hi) == IF v < lo THEN lo ELSE IF v > hi THEN hi ELSE v

MoveStep(d) == (move_speed * d * XU) \div MS
MovedX(x, inp, d) ==
    LET x1 == IF inp.left THEN x - MoveStep(d) ELSE x
    IN  IF inp.right THEN x1 + MoveStep(d) ELSE x1

SpawnIntervalRising(sc) ==
    Max(Max((8 * TU) \div 10, (12 * TU) \div 10 + (sc * TU) \div (1000 * SU)),
        (15 * TU) \div 100)
(* (0.8_f64.max(1.2 - score * 0.001)).max(0.15) *)
SpawnInterval(sc) ==
    Max(Max((8 * TU) \div 10, (12 * TU) \div 10 - (sc * TU) \div (1000 * SU)),
        (15 * TU) \div 100)

(* The three draws of a spawn, in the order of the code: x, size, vy *)
SpawnX(w, s) == rand_between(0, w - 14 * XU, s)
SpawnSize(s) == rand_between(10 * XU, 24 * XU, s)
SpawnVyFromBase(sp, s) == rand_between(120 * VU, 280 * VU, s)
SpawnVy(sp, s) == rand_between(sp, sp + 160 * VU, s)
NewMeteor(w, sp, s0) ==
    LET s1 == xorshift(s0)
        s2 == xorshift(s1)
        s3 == xorshift(s2)
        size == SpawnSize(s2)
    IN  [r |-> [x |-> SpawnX(w, s1), y |-> -(size * (YU \div XU)),
                w |-> size, h |-> size * (YU \div XU)],
         vy |-> SpawnVy(sp, s3)]

Fall(ms, d) == [i \in 1..Len(ms) |-> [ms[i] EXCEPT !.r.y = @ + ms[i].vy * d]]
AllHit(ms, p) == \A i \in 1..Len(ms) : intersects(ms[i].r, p)
AnyHit(ms, p) == \E i \in 1..Len(ms) : intersects(ms[i].r, p)
KeepAbovePlayer(m) == m.r.y < height - 60 * YU
Keep(m) == m.r.y < height + 60 * YU
RetainAll(ms) == ms
Retain(ms) == SelectSeq(ms, Keep)

ScoreLoss(d) == -((d * 100 * SU) \div MS)
ScoreGain(d) == (d * 100 * SU) \div MS
SpeedOfBase(sc) == 120 * VU
SpeedOf(sc) == 120 * VU + (sc * 6 * VU) \div (10 * SU)

(* if self.over { return; } *)
EarlyReturnNever(o) == FALSE
EarlyReturn(o) == o

Update(d) ==
    IF EarlyReturn(over)
    THEN UNCHANGED <<player, meteors, spawn_timer, score, speed, over, SEED, panicked>>
    ELSE
    LET x1 == MovedX(player.x, input, d)
        hi == width - player.w
    IN  IF ClampPanics(0, hi)
        THEN /\ player' = [player EXCEPT !.x = x1]
             /\ panicked' = TRUE
             /\ UNCHANGED <<meteors, spawn_timer, score, speed, over, SEED>>
        ELSE
        LET p1 == [player EXCEPT !.x = Clamp(x1, 0, hi)]
            t1 == spawn_timer - (d * TU) \div MS
            spawn == t1 <= 0
            ms1 == IF spawn THEN Append(meteors, NewMeteor(width, speed, SEED))
                   ELSE meteors
            ms2 == Fall(ms1, d)
            sc == score + ScoreGain(d)
        IN  /\ player' = p1
            /\ spawn_timer' = IF spawn THEN SpawnInterval(score) ELSE t1
            /\ SEED' = IF spawn THEN xorshift(xorshift(xorshift(SEED))) ELSE SEED
            /\ over' = AnyHit(ms2, p1)
            /\ meteors' = Retain(ms2)
            /\ score' = sc
            /\ speed' = SpeedOf(sc)
            /\ UNCHANGED panicked

(* GameCell::tick at the clock reading t *)
DtClamp == 33
Deltas == {0, 33, 50}
TickNoClamp(t) ==
    /\ ~panicked
    /\ last_t' = t
    /\ Update(t - last_t)
    /\ UNCHANGED <<width, height, input>>
Tick(t) ==
    /\ ~panicked
    /\ last_t' = t
    /\ Update(Min(t - last_t, DtClamp))
    /\ UNCHANGED <<width, height, input>>

----------------------------------------------------------------------------
(* Game::reset *)
ResetKeepsSpeed ==
    /\ player' = [player EXCEPT !.x = width \div 2 - 15 * XU]
    /\ meteors' = <<>>
    /\ spawn_timer' = 0
    /\ score' = 0
    /\ speed' = speed
    /\ over' = FALSE
Reset ==
    /\ player' = [player EXCEPT !.x = width \div 2 - 15 * XU]
    /\ meteors' = <<>>
    /\ spawn_timer' = 0
    /\ score' = 0
    /\ speed' = 120 * VU
    /\ over' = FALSE

(* add_key_listeners: the keydown and keyup handlers *)
LeftKeys == {"ArrowLeft", "a", "A"}
RightKeys == {"ArrowRight", "d", "D"}
RetryKeys == {"r", "R"}
Keys == LeftKeys \cup RightKeys \cup RetryKeys \cup {"Space"}

KeyDownRetryAnytime(k) ==
    /\ ~panicked
    /\ IF k \in LeftKeys THEN input' = [input EXCEPT !.left = TRUE] /\ UNCHANGED game
       ELSE IF k \in RightKeys THEN input' = [input EXCEPT !.right = TRUE] /\ UNCHANGED game
       ELSE IF k \in RetryKeys THEN Reset /\ UNCHANGED input
       ELSE UNCHANGED <<input, player, meteors, spawn_timer, score, speed, over>>
    /\ UNCHANGED <<width, height, last_t, SEED, panicked>>
KeyDown(k) ==
    /\ ~panicked
    /\ IF k \in LeftKeys THEN input' = [input EXCEPT !.left = TRUE] /\ UNCHANGED game
       ELSE IF k \in RightKeys THEN input' = [input EXCEPT !.right = TRUE] /\ UNCHANGED game
       ELSE IF k \in RetryKeys /\ over THEN Reset /\ UNCHANGED input
       ELSE UNCHANGED <<input, player, meteors, spawn_timer, score, speed, over>>
    /\ UNCHANGED <<width, height, last_t, SEED, panicked>>

KeyUpSwapped(k) ==
    /\ ~panicked
    /\ IF k \in LeftKeys THEN input' = [input EXCEPT !.right = FALSE]
       ELSE IF k \in RightKeys THEN input' = [input EXCEPT !.left = FALSE]
       ELSE UNCHANGED input
    /\ UNCHANGED <<width, height, player, meteors, spawn_timer, score, speed,
                   over, last_t, SEED, panicked>>
KeyUp(k) ==
    /\ ~panicked
    /\ IF k \in LeftKeys THEN input' = [input EXCEPT !.left = FALSE]
       ELSE IF k \in RightKeys THEN input' = [input EXCEPT !.right = FALSE]
       ELSE UNCHANGED input
    /\ UNCHANGED <<width, height, player, meteors, spawn_timer, score, speed,
                   over, last_t, SEED, panicked>>

----------------------------------------------------------------------------
(* Short sessions on small playfields: every key, late and repeated frames,
   retries *)
PlayFields == {<<20, 50>>, <<48, 100>>}
Init == New(PlayFields)

Next ==
    \/ \E d \in Deltas : last_t + d <= MaxT /\ Tick(last_t + d)
    \/ \E k \in Keys : KeyDown(k)
    \/ \E k \in Keys : KeyUp(k)

Spec == Init /\ [][Next]_vars

(* One long round on the 400 x 600 playfield at a steady 33 ms frame, steered
   with the arrow keys, followed until the round ends *)
LongFields == {<<400, 600>>}
InitLong == New(LongFields)

NextLong ==
    \/ ~over /\ last_t + DtClamp <= MaxTLong /\ Tick(last_t + DtClamp)
    \/ \E k \in {"ArrowLeft", "ArrowRight"} : KeyDown(k)
    \/ \E k \in {"ArrowLeft", "ArrowRight"} : KeyUp(k)

SpecLong == InitLong /\ [][NextLong]_vars

(* The difficulty functions of update, applied to scores of 0 to 1500 in
   steps of 5: spawn_timer holds the interval line 84 resets the countdown to
   at that score, speed the fall-speed base line 101 computes from it *)
Scores == {k * 5 * SU : k \in 0..MaxScoreSteps}
Difficulty(sc) ==
    /\ score' = sc
    /\ spawn_timer' = SpawnInterval(sc)
    /\ speed' = SpeedOf(sc)
    /\ UNCHANGED <<width, height, player, meteors, input, over, last_t, SEED, panicked>>

InitDifficulty ==
    /\ width = 400 * XU
    /\ height = 600 * YU
    /\ player = NewPlayer(400 * XU, 600 * YU)
    /\ meteors = <<>>
    /\ score = 0
    /\ spawn_timer = SpawnInterval(0)
    /\ speed = SpeedOf(0)
    /\ input = [left |-> FALSE, right |-> FALSE]
    /\ over = FALSE
    /\ last_t = 0
    /\ SEED = SeedInit
    /\ panicked = FALSE

NextDifficulty == \E sc \in Scores : Difficulty(sc)

SpecDifficulty == InitDifficulty /\ [][NextDifficulty]_vars

(* Rect::intersects applied to pairs of rectangles on a 10-pixel grid: the
   player's box is set to a and the one meteor's box to b, and over holds the
   result of the collision test of lines 93-95 on them *)
RectGrid == {0, 10, 20}
Rects == {[x |-> gx * XU, y |-> gy * YU, w |-> gw * XU, h |-> gh * YU] :
            gx \in RectGrid, gy \in RectGrid, gw \in RectGrid, gh \in RectGrid}
PlacePlayer(a) ==
    /\ player' = a
    /\ over' = AnyHit(meteors, player')
    /\ UNCHANGED <<width, height, meteors, spawn_timer, score, speed, input,
                   last_t, SEED, panicked>>
PlaceMeteor(b) ==
    /\ meteors' = <<[r |-> b, vy |-> speed]>>
    /\ over' = AnyHit(meteors', player)
    /\ UNCHANGED <<width, height, player, spawn_timer, score, speed, input,
                   last_t, SEED, panicked>>

InitRects == New(LongFields)

NextRects ==
    \/ \E a \in Rects : PlacePlayer(a)
    \/ \E b \in Rects : PlaceMeteor(b)

SpecRects == InitRects /\ [][NextRects]_vars

(* The generator on its own, late in its orbit: the SEED after FarSpawns
   spawns (three calls of rand_f64 each) since the page was loaded, advanced
   one call of rand_f64 at a time up to the first call that returns 1 *)
FarSpawns == 768775178
Draw ==
    /\ BelowOne(RandLow(SEED), U32Max)
    /\ SEED' = xorshift(SEED)
    /\ UNCHANGED <<width, height, player, meteors, spawn_timer, score, speed,
                   input, over, last_t, panicked>>

InitDraws ==
    /\ width = 400 * XU
    /\ height = 600 * YU
    /\ player = NewPlayer(400 * XU, 600 * YU)
    /\ meteors = <<>>
    /\ spawn_timer = 0
    /\ score = 0
    /\ speed = 120 * VU
    /\ input = [left |-> FALSE, right |-> FALSE]
    /\ over = FALSE
    /\ last_t = 0
    /\ SEED = Jump(Draw3, FarSpawns, SeedInit)
    /\ panicked = FALSE

NextDraws == Draw

SpecDraws == InitDraws /\ [][NextDraws]_vars

(* The movement lines of update (76-79) in f64 arithmetic, on the 48-pixel
   playfield.  A double v with |v| < 32 that occurs here is an integer multiple
   n of 2^-51; it is held as <<n \div 2^28, n % 2^28>>.  Sums of such numbers
   are formed exactly and then rounded to 53 significant bits, ties to even, as
   the f64 operations do *)
F64Base == Pow2(28)
F64Int(n) == <<n * Pow2(23), 0>>
F64Neg(a) == IF a[2] = 0 THEN <<-a[1], 0>> ELSE <<-a[1] - 1, F64Base - a[2]>>
F64Abs(a) == IF a[1] < 0 THEN F64Neg(a) ELSE a
F64Less(a, b) == a[1] < b[1] \/ (a[1] = b[1] /\ a[2] < b[2])
F64Exact(a, b) ==
    LET lo == a[2] + b[2]
    IN  <<a[1] + b[1] + lo \div F64Base, lo % F64Base>>
(* below 2^53 units every integer is a double; from there up to 2^54 the
   doubles are the multiples of 2, then of 4, then of 8 *)
F64Round(a) ==
    LET m == F64Abs(a)
        q == IF m[1] < Pow2(25) THEN 1
             ELSE IF m[1] < Pow2(26) THEN 2
             ELSE IF m[1] < Pow2(27) THEN 4 ELSE 8
        r == m[2] % q
        down == m[2] - r
        up == 2 * r > q \/ (2 * r = q /\ (down \div q) % 2 = 1)
        lo == IF up THEN down + q ELSE down
        n == <<m[1] + lo \div F64Base, lo % F64Base>>
    IN  IF a[1] < 0 THEN F64Neg(n) ELSE n
F64Add(a, b) == F64Round(F64Exact(a, b))
F64Sub(a, b) == F64Round(F64Exact(a, F64Neg(b)))

(* move_speed * dt in f64 for a frame of d ms: 220.0 * 0.016 is the double
   7926335344172073 * 2^-51 (3.52) and 220.0 * 0.033 the double
   16348066647354902 * 2^-51 (7.260000000000001) *)
MoveStepF64(d) == IF d = 16 THEN <<29527900, 42949673>> ELSE <<60901294, 21474838>>
MovedXF64(x, inp, d) ==
    LET x1 == IF inp.left THEN F64Sub(x, MoveStepF64(d)) ELSE x
    IN  IF inp.right THEN F64Add(x1, MoveStepF64(d)) ELSE x1
ClampF64(v, lo, hi) == IF F64Less(v, lo) THEN lo ELSE IF F64Less(hi, v) THEN hi ELSE v

MaxTMove == 150
MoveDeltas == {16, 33}
Move(d) ==
    /\ last_t' = last_t + d
    /\ player' = [player EXCEPT !.x = ClampF64(MovedXF64(player.x, input, d),
                                               F64Int(0), F64Sub(width, player.w))]
    /\ UNCHANGED <<width, height, meteors, spawn_timer, score, speed, input,
                   over, SEED, panicked>>

InitMove ==
    /\ width = F64Int(48)
    /\ height = 100 * YU
    /\ player = [x |-> F64Int(48 \div 2 - 15), y |-> 100 * YU - 40 * YU,
                 w |-> F64Int(PlayerW), h |-> PlayerH * YU]
    /\ meteors = <<>>
    /\ spawn_timer = 0
    /\ score = 0
    /\ speed = 120 * VU
    /\ input = [left |-> FALSE, right |-> FALSE]
    /\ over = FALSE
    /\ last_t = 0
    /\ SEED = SeedInit
    /\ panicked = FALSE

NextMove ==
    \/ \E d \in MoveDeltas : last_t + d <= MaxTMove /\ Move(d)
    \/ \E k \in {"ArrowLeft", "ArrowRight"} : KeyDown(k)
    \/ \E k \in {"ArrowLeft", "ArrowRight"} : KeyUp(k)

SpecMove == InitMove /\ [][NextMove]_vars

----------------------------------------------------------------------------
(* Properties *)

TickStep == \E d \in Deltas : Tick(last_t + d)
RetryStep == \E k \in RetryKeys : KeyDown(k)
StepDt == Min(last_t' - last_t, DtClamp)
Seed1 == xorshift(xorshift(xorshift(SeedInit)))
Seed2 == xorshift(xorshift(xorshift(Seed1)))

(* C1: once the game is over, no step short of a reset changes the player
   rectangle, the meteor list, the score, the spawn countdown or the
   fall-speed base. *)
C1_FrozenWhileOver ==
    [][(over /\ over') =>
         /\ player' = player
         /\ meteors' = meteors
         /\ score' = score
         /\ spawn_timer' = spawn_timer
         /\ speed' = speed]_vars
(* The first round is over and the clock has run on past it: during play the
   clock gains at most 50 ms for every 33 ms of score. *)
C1_Witness ==
    /\ over
    /\ SEED = Seed1
    /\ 33 * (last_t - score) > 17 * score

(* C2: in every reachable state 0 <= player.x <= width - player.w. *)
C2_PlayerInField == 0 <= player.x /\ player.x <= width - player.w

(* C3: whenever the spawn countdown expires in an update step at a score of
   at least 1050, the countdown is reset to 0.15 s. *)
C3_FloorAt1050 ==
    [][(SEED' # SEED /\ score >= 1050 * SU) => spawn_timer' = (15 * TU) \div 100]_vars

(* C4: every meteor created by the spawn step has a size in [10, 24],
   y = -size (before the fall of that step) and 0 <= x <= width - size. *)
C4_SpawnInsideField ==
    [][SEED' # SEED =>
         LET m == meteors'[Len(meteors')]
         IN  /\ 10 * XU <= m.r.w /\ m.r.w <= 24 * XU
             /\ m.r.h = m.r.w * (YU \div XU)
             /\ m.r.y = -m.r.h + m.vy * StepDt
             /\ 0 <= m.r.x /\ m.r.x <= width - m.r.w]_vars

(* C5: a reset leaves the state construction would give for the same
   playfield: player box (width/2 - 15, height - 40, 30, 20), no meteors,
   score 0, countdown 0, fall-speed base 120, Playing. *)
C5_ResetIsNew ==
    [][(over /\ ~over') =>
         /\ player' = [x |-> width \div 2 - 15 * XU, y |-> height - 40 * YU,
                       w |-> 30 * XU, h |-> 20 * YU]
         /\ meteors' = <<>>
         /\ score' = 0
         /\ spawn_timer' = 0
         /\ speed' = 120 * VU
         /\ width' = width /\ height' = height]_vars
(* A fresh round whose generator has already been used: only a reset gives it. *)
C5_Witness ==
    /\ ~over
    /\ SEED # SeedInit
    /\ meteors = <<>>
    /\ score = 0

(* C6: the phase changes only from Playing to GameOver in an update step and
   from GameOver to Playing by the retry key; a retry key pressed while
   Playing changes nothing. *)
C6_PhaseChanges ==
    [][/\ (~over /\ over') => TickStep
       /\ (over /\ ~over') => RetryStep
       /\ (~over /\ RetryStep) => UNCHANGED vars]_vars
(* The second round is over: both changes of phase have happened. *)
C6_Witness == over /\ SEED = Seed2

(* C7: without a reset the score never decreases from one step to the next
   while Playing and is the same before and after every step in GameOver. *)
C7_ScoreMonotone ==
    [][/\ ~over => score' >= score
       /\ (over /\ over') => score' = score]_vars
(* A round that scored and ended, with the clock run on past its end. *)
C7_Witness ==
    /\ over
    /\ score > 0
    /\ last_t > 2 * score

(* C8: between steps no meteor of the list has y >= height + 60. *)
C8_Pruned == \A i \in 1..Len(meteors) : meteors[i].r.y < height + 60 * YU
(* A round still running that has scored and holds no meteor: the meteor its
   first update spawned has been pruned. *)
C8_Witness ==
    /\ ~over
    /\ score > 0
    /\ meteors = <<>>

(* C9: for every playfield with width > 0 and height > 0 no sequence of
   updates, key events and resets panics; the clamp of update always has
   0 <= width - player.w. *)
C9_NeverPanics == (width > 0 /\ height > 0) => ~panicked

(* C10: an update that starts in Playing ends in GameOver exactly when, with
   the player moved, the possible new meteor spawned and every meteor fallen,
   some meteor overlaps the player. *)
C10_OverIffHit ==
    [][(~over /\ TickStep /\ ~panicked') =>
         LET old == {[meteors[i].r EXCEPT !.y = @ + meteors[i].vy * StepDt] :
                       i \in 1..Len(meteors)}
             new == IF SEED' # SEED THEN {meteors'[Len(meteors')].r} ELSE {}
         IN  over' <=> \E r \in old \cup new : intersects(r, player')]_vars
(* A round has ended with a meteor on the player. *)
C10_Witness ==
    /\ over
    /\ \E i \in 1..Len(meteors) : intersects(meteors[i].r, player)

(* C11: the update that takes Playing to GameOver still adds dt * 100 to the
   score and recomputes the fall-speed base from the new score. *)
C11_ScoreInLastFrame ==
    [][(~over /\ over') =>
         /\ score' = score + (StepDt * 100 * SU) \div MS
         /\ speed' = 120 * VU + (6 * VU * score') \div (10 * SU)]_vars
(* The first round has ended on its only meteor, which has fallen for exactly
   the time the score counts: the frame of the collision moved both. *)
C11_Witness ==
    /\ over
    /\ score > 0
    /\ Len(meteors) = 1
    /\ meteors[1].r.y = -meteors[1].r.h + meteors[1].vy * score

(* C12: a key event overwrites the flag of its direction and leaves the other;
   an update moves the player by the flags as they stand when it runs, so
   a flag set and cleared again before the update does not move the player. *)
C12_LastWriteWins ==
    [][/\ (\E k \in LeftKeys : KeyDown(k)) => (input'.left /\ input'.right = input.right)
       /\ (\E k \in LeftKeys : KeyUp(k)) => (~input'.left /\ input'.right = input.right)
       /\ (\E k \in RightKeys : KeyDown(k)) => (input'.right /\ input'.left = input.left)
       /\ (\E k \in RightKeys : KeyUp(k)) => (~input'.right /\ input'.left = input.left)
       /\ (~over /\ TickStep /\ ~panicked') =>
            LET step == (220 * StepDt * XU) \div MS
                raw == player.x - (IF input.left THEN step ELSE 0)
                                + (IF input.right THEN step ELSE 0)
                hi == width - player.w
            IN  /\ input' = input
                /\ player'.x = IF raw < 0 THEN 0 ELSE IF raw > hi THEN hi ELSE raw
                /\ (~input.left /\ ~input.right) => player'.x = player.x]_vars
(* Two frames of 33 ms have run, the player is one frame's move left of the
   start and no key is down: the left key was down for one update and, released,
   did not move the player in the other. *)
C12_Witness ==
    /\ ~over
    /\ score = 2 * ((33 * 100 * SU) \div MS)
    /\ player.x = (width \div 2 - 15 * XU) - (220 * 33 * XU) \div MS
    /\ ~input.left
    /\ ~input.right

(* C13: every update run by tick uses dt = min((now - last_t) / 1000, 0.033);
   last_t is written by every tick and by nothing else, so no step, the first
   after a reset included, adds more than 3.3 to the score. *)
C13_DtClamped ==
    [][/\ score' - score <= (33 * 100 * SU) \div MS
       /\ (~over /\ TickStep /\ ~panicked') =>
            score' - score = (Min(last_t' - last_t, 33) * 100 * SU) \div MS
       /\ last_t' >= last_t
       /\ last_t' # last_t => TickStep]_vars
(* The first round is running and the clock is ahead of the time the score
   counts: a frame longer than 33 ms has been clamped. *)
C13_Witness ==
    /\ ~over
    /\ SEED = Seed1
    /\ score > 0
    /\ last_t * 100 * SU > score * MS

(* C14: for scores 0 <= score1 < score2 the fall-speed base 120 + 0.6 * score
   does not decrease and the spawn interval does not increase. *)
C14_Monotone ==
    [][score < score' => (speed <= speed' /\ spawn_timer >= spawn_timer')]_vars
(* A score past 400, where the interval has come down to 0.8 s and the
   fall-speed base has grown. *)
C14_Witness ==
    /\ score > 400 * SU
    /\ spawn_timer = (8 * TU) \div 10
    /\ speed > 120 * VU

(* C15: Rect::intersects is symmetric: for all rectangles a and b,
   a.intersects(b) equals b.intersects(a). *)
C15_Symmetric ==
    Len(meteors) = 1 =>
        (intersects(player, meteors[1].r) <=> intersects(meteors[1].r, player))
(* Two different boxes that overlap, tested both ways round. *)
C15_Witness ==
    /\ Len(meteors) = 1
    /\ over
    /\ player.x < meteors[1].r.x
    /\ player.w > meteors[1].r.w
    /\ player.y > meteors[1].r.y

(* C16: the overlap test is on open intervals: boxes of positive size that
   are apart or only share an edge or a corner do not intersect, so a meteor
   exactly touching the player does not end the round, and a rectangle of
   positive width and height intersects itself. *)
C16_OpenIntervals ==
    Len(meteors) = 1 =>
        LET a == player
            b == meteors[1].r
        IN  /\ (\/ a.x + a.w <= b.x
                \/ b.x + b.w <= a.x
                \/ a.y + a.h <= b.y
                \/ b.y + b.h <= a.y) => ~over
            /\ (a = b /\ a.w > 0 /\ a.h > 0) => over
(* The boxes a = {0,0,10,10} and b = {10,0,10,10}, which share one edge. *)
C16_Witness ==
    /\ Len(meteors) = 1
    /\ ~over
    /\ player = [x |-> 0, y |-> 0, w |-> 10 * XU, h |-> 10 * YU]
    /\ meteors[1].r = [x |-> 10 * XU, y |-> 0, w |-> 10 * XU, h |-> 10 * YU]

(* C17: every value returned by rand_f64, for every generator state reachable
   from the seed, is at least 0 and strictly less than 1, and the generator
   state never becomes zero. *)
C17_UnitInterval ==
    /\ RandLow(SEED)[1] >= 0
    /\ RandLow(SEED)[2] >= 0
    /\ BelowOne(RandLow(SEED), U32Max)
    /\ \E i \in 0..(SeedBits - 1) : SEED[i] = 1

(* C18: a meteor spawned in an update step has fall speed in [b, b + 160]
   with b = 120 + 0.6 * (score at the start of the step), and the stored
   speed equals 120 + 0.6 * score in every state between steps. *)
C18_SpawnSpeed ==
    [][/\ speed = 120 * VU + (6 * VU * score) \div (10 * SU)
       /\ speed' = 120 * VU + (6 * VU * score') \div (10 * SU)
       /\ SEED' # SEED =>
            LET b == 120 * VU + (6 * VU * score) \div (10 * SU)
                m == meteors'[Len(meteors')]
            IN  /\ Len(meteors') >= 1
                /\ b <= m.vy
                /\ m.vy <= b + 160 * VU]_vars
(* A second meteor, spawned at a positive score, that falls faster than the
   280 px/s a meteor spawned at score 0 can have. *)
C18_Witness ==
    /\ Len(meteors) = 2
    /\ score > 0
    /\ meteors[2].vy > 280 * VU
    /\ meteors[2].vy <= speed + 160 * VU

(* C19: when both left and right are held during an update step of a running
   round, the player's x after the step equals its x before the step, for
   every starting x in [0, width - player.w]. *)
C19_BothHeldStays ==
    [][(input.left /\ input.right /\ ~over /\ last_t' # last_t) =>
          player'.x = player.x]_vars

(* C20: in every reachable state in which the game is over the meteor list
   holds a meteor whose box overlaps the player's box: the colliding meteor
   is not removed by the collision, is above height + 60 and so survives the
   pruning of that step, and nothing moves until reset. *)
C20_HitStays ==
    over => \E i \in 1..Len(meteors) :
                /\ intersects(player, meteors[i].r)
                /\ meteors[i].r.y < height + 60 * YU
(* A finished round, with a key held and more clock time gone by than the
   score counted, in which the one meteor still lies on the player. *)
C20_Witness ==
    /\ over
    /\ input.left
    /\ Len(meteors) = 1
    /\ meteors[1].r.y + meteors[1].r.h > player.y
    /\ meteors[1].r.y < player.y + player.h
    /\ last_t * 100 * SU > (score + 5 * SU) * MS

====
